---- MODULE Spec2Model ----
(***************************************************************************)
(* A model of the bitmanip library: zero-bit interleaving and its inverse, *)
(* N-ary and byte interleaving, and the integer logarithms.                *)
(*                                                                         *)
(* An unsigned integer of width W is modelled as the set of the positions  *)
(* of its 1-bits, a subset of 0..W-1, so that every width up to 128 bits   *)
(* is exact.  The library is a set of pure functions; the state machine    *)
(* is a caller that holds arguments and applies one function to them.      *)
(***************************************************************************)
EXTENDS Integers, Sequences, FiniteSets

VARIABLES
    fn,     \* the function that was applied, "none" before the call
    args,   \* the arguments of the call
    ret     \* the value the call returned

vars == <<fn, args, ret>>

\* TRUE.  Used in a loop guard, it has the loop variable x computed when the round
\* is entered instead of when the loop has ended.
Strict(x) == x = x

(***************************************************************************)
(* Fixed-width unsigned arithmetic on bit sets.                            *)
(***************************************************************************)
BitsOf(W) == 0..(W - 1)

AllOnes(W) == BitsOf(W)

\* static_cast to an unsigned type of W bits
Trunc(w, W) == w \cap BitsOf(W)

\* w << s in a W-bit unsigned type
Shl(w, s, W) == {b + s : b \in w} \cap BitsOf(W)

\* w >> s
Shr(w, s) == {b - s : b \in {c \in w : c >= s}}

Or(a, b) == a \cup b

And(a, b) == a \cap b

\* integer division and remainder of C++: the quotient is truncated
CDiv(x, y) ==
    IF (x >= 0) = (y >= 0)
        THEN (IF x >= 0 THEN x ELSE 0 - x) \div (IF y >= 0 THEN y ELSE 0 - y)
        ELSE 0 - ((IF x >= 0 THEN x ELSE 0 - x) \div (IF y >= 0 THEN y ELSE 0 - y))

CRem(x, y) == x - y * CDiv(x, y)

divCeil(x, y) ==
    LET quotientPositive == (x >= 0) = (y >= 0)
    IN  CDiv(x, y) + (IF CRem(x, y) # 0 /\ quotientPositive THEN 1 ELSE 0)

Min(a, b) == IF a < b THEN a ELSE b

(***************************************************************************)
(* Bit duplication and zero-bit interleaving, the naive algorithms.        *)
(***************************************************************************)
RECURSIVE duplBits_inner(_, _, _, _, _, _)
duplBits_inner(input, n, i, j, b_out, result) ==
    IF j < n /\ Strict(result)
        THEN duplBits_inner(input, n, i, j + 1, b_out + 1,
                            Or(result, Shl(And(Shr(input, i), {0}), b_out, 64)))
        ELSE result

RECURSIVE duplBits_outer(_, _, _, _, _)
duplBits_outer(input, n, lim, i, result) ==
    IF i < lim /\ Strict(result)
        THEN duplBits_outer(input, n, lim, i + 1,
                            duplBits_inner(input, n, i, 0, i * n, result))
        ELSE result

duplBits_naive(input, out_bits_per_in_bits) ==
    IF out_bits_per_in_bits = 0
        THEN {}
        ELSE duplBits_outer(input, out_bits_per_in_bits,
                            divCeil(64, out_bits_per_in_bits), 0, {})

RECURSIVE ileaveZeros_naive_loop_stride(_, _, _, _, _, _)
ileaveZeros_naive_loop_stride(input, bits, lim, i, b_out, result) ==
    IF i < lim /\ Strict(input) /\ Strict(result)
        THEN ileaveZeros_naive_loop_stride(Shr(input, 1), bits, lim, i + 1, b_out + bits,
                                           Or(result, Shl(And(input, {0}), b_out, 64)))
        ELSE result

RECURSIVE ileaveZeros_naive_loop(_, _, _, _, _, _)
ileaveZeros_naive_loop(input, bits, lim, i, b_out, result) ==
    IF i < lim /\ Strict(input) /\ Strict(result)
        THEN ileaveZeros_naive_loop(Shr(input, 1), bits, lim, i + 1, b_out + bits + 1,
                                    Or(result, Shl(And(input, {0}), b_out, 64)))
        ELSE result

ileaveZeros_naive(input, bits) ==
    LET lim == Min(32, divCeil(64, bits + 1))
    IN  ileaveZeros_naive_loop(Trunc(input, 32), bits, lim, 0, 0, {})

(***************************************************************************)
(* Conversions between small naturals and bit sets, addition and           *)
(* multiplication modulo 2^W.                                              *)
(***************************************************************************)
\* the W-bit unsigned value of the natural n < 2^31
ToWord(n) == {b \in 0..30 : (n \div (2 ^ b)) % 2 = 1}

\* the value of bits 16l .. 16l+15 of w
LimbOf(w, l) ==
    LET f[i \in 0..16] ==
            IF i = 0
                THEN 0
                ELSE f[i - 1] + (IF (16 * l + i - 1) \in w THEN 2 ^ (i - 1) ELSE 0)
    IN  f[16]

\* the bits 16l .. 16l+15 of a word whose limb l is n
WordOf(n, l) == {16 * l + c : c \in {b \in 0..15 : (n \div (2 ^ b)) % 2 = 1}}

\* the natural that a word below 2^31 stands for
ToNat(w) == LimbOf(w, 0) + 65536 * LimbOf(w, 1)

RECURSIVE Add_limbs(_, _, _, _, _)
Add_limbs(a, b, W, l, carry) ==
    IF 16 * l >= W
        THEN {}
        ELSE LET s == LimbOf(a, l) + LimbOf(b, l) + carry
             IN  WordOf(s % 65536, l) \cup Add_limbs(a, b, W, l + 1, s \div 65536)

\* a + b in a W-bit unsigned type
Add(a, b, W) == Trunc(Add_limbs(a, b, W, 0, 0), W)

\* a - b in a W-bit unsigned type
Sub(a, b, W) == Add(a, Add(BitsOf(W) \ b, {0}, W), W)

\* the partial products a << i of the 1-bits i of b, summed from bit 0 upwards
RECURSIVE Mul_loop(_, _, _, _, _)
Mul_loop(a, b, W, i, acc) ==
    IF i < W /\ Strict(acc)
        THEN Mul_loop(a, b, W, i + 1, IF i \in b THEN Add(acc, Shl(a, i, W), W) ELSE acc)
        ELSE acc

\* a * b in a W-bit unsigned type
Mul(a, b, W) == Mul_loop(a, b, W, 0, {})

\* a < b, a <= b as unsigned values
Lt(a, b) == \E i \in b \ a : \A j \in a \ b : j < i

Le(a, b) == a = b \/ Lt(a, b)

(***************************************************************************)
(* Powers of two and the base 2 logarithm.                                 *)
(***************************************************************************)
log2bits_v(W) == <<0, 1, 1, 2, 2, 2, 2, 3>>[W \div 8] + 3

\* the index of the highest 1-bit of a non-zero word
Msb(v) == CHOOSE b \in v : \A c \in v : c <= b

\* the count-leading-zeros instruction; its result for 0 is undefined
clz(v, W) == (W - 1) - Msb(v)

\* (v != 0) * (maxIndex - clz(v)): whatever clz returns for 0 is multiplied by 0
log2floor_builtin(v, W) ==
    LET maxIndex == W - 1
    IN  IF v # {} THEN maxIndex - clz(v, W) ELSE 0

isPow2or0(val, W) == And(val, Sub(val, {0}, W)) = {}

isPow2(val, W) == val # {} /\ isPow2or0(val, W)

ceilPow2m1_builtin(v, W) ==
    LET log == log2floor_builtin(v, W)
    IN  Or(v, Sub(Shl({0}, log, W), {0}, W))

\* round i shifts by i + 1 in place of 1 << i
RECURSIVE ceilPow2m1_loop_linear(_, _, _)
ceilPow2m1_loop_linear(v, iterations, i) ==
    IF i < iterations
        THEN ceilPow2m1_loop_linear(Or(v, Shr(v, i + 1)), iterations, i + 1)
        ELSE v

RECURSIVE ceilPow2m1_loop(_, _, _)
ceilPow2m1_loop(v, iterations, i) ==
    IF i < iterations
        THEN ceilPow2m1_loop(Or(v, Shr(v, 2 ^ i)), iterations, i + 1)
        ELSE v

ceilPow2m1_shift(v, W) == ceilPow2m1_loop(v, log2bits_v(W), 0)

\* builtin: the instruction is available on x86 and the call is not constant-evaluated
ceilPow2m1(v, W, builtin) ==
    IF builtin THEN ceilPow2m1_builtin(v, W) ELSE ceilPow2m1_shift(v, W)

\* v - 1 and v >> 1 have the type int for the types narrower than int, for which
\* ceilPow2m1 is not declared: ceilPow2 and floorPow2 exist for 32 and 64 bits only
Pow2Widths == {32, 64}

\* the value is not decremented before it is rounded
ceilPow2_nodec(v, W, builtin) == Add(ceilPow2m1(v, W, builtin), {0}, W)

ceilPow2(v, W, builtin) == Add(ceilPow2m1(Sub(v, {0}, W), W, builtin), {0}, W)

floorPow2(v, W, builtin) == Add(ceilPow2m1(Shr(v, 1), W, builtin), {0}, W)

MultiplyDeBruijnBitPosition ==
    <<0, 9, 1, 10, 13, 21, 2, 29, 11, 14, 16, 18, 22, 25, 3, 30,
      8, 12, 20, 28, 15, 17, 24, 7, 19, 27, 23, 6, 26, 5, 4, 31>>

magic == 130329821  \* 0x07C4ACDD

\* the value is multiplied without being rounded up to 2^n - 1
log2floor_debruijn_index_raw(val, builtin) ==
    LET v2 == Mul(val, ToWord(magic), 32)
        v3 == Shr(v2, 27)
    IN  ToNat(v3)

\* the index into the table: val after val >>= 27
log2floor_debruijn_index(val, builtin) ==
    LET v1 == ceilPow2m1(val, 32, builtin)
        v2 == Mul(v1, ToWord(magic), 32)
        v3 == Shr(v2, 27)
    IN  ToNat(v3)

log2floor_debruijn(val, builtin) ==
    MultiplyDeBruijnBitPosition[log2floor_debruijn_index(val, builtin) + 1]

RECURSIVE log2floor_naive_loop(_, _)
log2floor_naive_loop(val, result) ==
    LET v == Shr(val, 1)
    IN  IF v # {} THEN log2floor_naive_loop(v, result + 1) ELSE result

log2floor_naive(val) == log2floor_naive_loop(val, 0)

\* v > compShift in place of v >= compShift
RECURSIVE log2floor_fast_loop_gt(_, _, _, _)
log2floor_fast_loop_gt(v, W, i, result) ==
    IF i # 0
        THEN LET compBits == 2 ^ (i - 1)
                 compShift == Shl({0}, compBits, W)
                 shift == IF Lt(compShift, v) THEN 2 ^ (i - 1) ELSE 0
             IN  log2floor_fast_loop_gt(Shr(v, shift), W, i - 1, Or(result, ToWord(shift)))
        ELSE ToNat(result)

RECURSIVE log2floor_fast_loop(_, _, _, _)
log2floor_fast_loop(v, W, i, result) ==
    IF i # 0
        THEN LET compBits == 2 ^ (i - 1)
                 compShift == Shl({0}, compBits, W)
                 shift == IF Le(compShift, v) THEN 2 ^ (i - 1) ELSE 0
             IN  log2floor_fast_loop(Shr(v, shift), W, i - 1, Or(result, ToWord(shift)))
        ELSE ToNat(result)

log2floor_fast(v, W) == log2floor_fast_loop(v, W, log2bits_v(W), {})

\* builtin: the instruction is available and the call is not constant-evaluated;
\* otherwise De Bruijn for std::uint32_t and the fast variant for the other types
log2floor(v, W, builtin) ==
    IF builtin
        THEN log2floor_builtin(v, W)
        ELSE IF W = 32 THEN log2floor_debruijn(v, FALSE) ELSE log2floor_fast(v, W)

\* zero is not taken for a power of two
log2ceil_pow2(val, W, builtin) ==
    LET result == log2floor(val, W, builtin)
    IN  result + (IF ~isPow2(val, W) THEN 1 ELSE 0)

log2ceil(val, W, builtin) ==
    LET result == log2floor(val, W, builtin)
    IN  result + (IF ~isPow2or0(val, W) THEN 1 ELSE 0)

(***************************************************************************)
(* Multiplication and division of a word by a small number, limb by limb.  *)
(***************************************************************************)
RECURSIVE MulSmall_limbs(_, _, _, _, _)
MulSmall_limbs(a, n, W, l, carry) ==
    IF 16 * l >= W
        THEN {}
        ELSE LET p == LimbOf(a, l) * n + carry
             IN  WordOf(p % 65536, l) \cup MulSmall_limbs(a, n, W, l + 1, p \div 65536)

\* a * n in W bits, for n below 2^14
MulSmall(a, n, W) == Trunc(MulSmall_limbs(a, n, W, 0, 0), W)

RECURSIVE DivSmall_limbs(_, _, _, _)
DivSmall_limbs(a, d, l, rem) ==
    IF l < 0
        THEN {}
        ELSE LET cur == rem * 65536 + LimbOf(a, l)
             IN  WordOf(cur \div d, l) \cup DivSmall_limbs(a, d, l - 1, cur % d)

\* a / d of a word of at most 64 bits, for d in 1..2^14
DivSmall(a, d) == DivSmall_limbs(a, d, 3, 0)

(***************************************************************************)
(* Logarithms of an arbitrary base.                                        *)
(***************************************************************************)
RECURSIVE logFloor_naive_loop(_, _, _)
logFloor_naive_loop(val, base, result) ==
    LET v == DivSmall(val, base)
    IN  IF v # {} THEN logFloor_naive_loop(v, base, result + 1) ELSE result

logFloor_naive(val, base) == logFloor_naive_loop(val, base, 0)

maxExp(BASE, W) == logFloor_naive(AllOnes(W), BASE)

\* q64 is a number: the callers pass table indices and logarithms below 64
unsafeMulQ32o32Q64(q32o32, q64) == Shr(MulSmall(q32o32, q64, 64), 32)

unsafeMulQ16o16Q32(q16o16, q32) == Shr(MulSmall(q16o16, q32, 32), 16)

cmpU64(a, b) == (IF Lt(b, a) THEN 1 ELSE 0) - (IF Lt(a, b) THEN 1 ELSE 0)

makeGuessTable_next(W, BASE) == [i1 \in 1..W |-> logFloor_naive({i1}, BASE)]

\* entry i is index i + 1 of the sequence
makeGuessTable(W, BASE) == [i1 \in 1..W |-> logFloor_naive({i1 - 1}, BASE)]

RECURSIVE compareApproximationToGuessTable_loop(_, _, _, _)
compareApproximationToGuessTable_loop(approxFactor, table, SIZE, b) ==
    IF b < SIZE
        THEN LET actualLog == ToWord(table[b + 1])
                 approxLog == unsafeMulQ32o32Q64(approxFactor, b)
                 cmp == cmpU64(approxLog, actualLog)
             IN  IF cmp # 0
                     THEN cmp
                     ELSE compareApproximationToGuessTable_loop(approxFactor, table, SIZE, b + 1)
        ELSE 0

compareApproximationToGuessTable(approxFactor, table) ==
    compareApproximationToGuessTable_loop(approxFactor, table, Len(table), 0)

NO_APPROXIMATION == AllOnes(64)

RECURSIVE approximateGuessTable_loop_result(_, _, _)
approximateGuessTable_loop_result(table, b, result) ==
    IF b >= 0 /\ Strict(result)
        THEN LET guessedResult == Or(result, {b})
                 cmp == compareApproximationToGuessTable(guessedResult, table)
             IN  IF cmp = 0
                     THEN result
                     ELSE approximateGuessTable_loop_result(table, b - 1,
                              IF cmp = -1 THEN guessedResult ELSE result)
        ELSE NO_APPROXIMATION

RECURSIVE approximateGuessTable_loop_last(_, _, _)
approximateGuessTable_loop_last(table, b, result) ==
    IF b >= 0 /\ Strict(result)
        THEN LET guessedResult == Or(result, {b})
                 cmp == compareApproximationToGuessTable(guessedResult, table)
             IN  approximateGuessTable_loop_last(table, b - 1,
                     IF cmp <= 0 THEN guessedResult ELSE result)
        ELSE (IF result = {} THEN NO_APPROXIMATION ELSE result)

\* b is the loop variable after the decrement of b-- != 0
RECURSIVE approximateGuessTable_loop(_, _, _)
approximateGuessTable_loop(table, b, result) ==
    IF b >= 0 /\ Strict(result)
        THEN LET guessedResult == Or(result, {b})
                 cmp == compareApproximationToGuessTable(guessedResult, table)
             IN  IF cmp = 0
                     THEN guessedResult
                     ELSE approximateGuessTable_loop(table, b - 1,
                              IF cmp = -1 THEN guessedResult ELSE result)
        ELSE NO_APPROXIMATION

approximateGuessTable(table) == approximateGuessTable_loop(table, 32, {})

\* the base of log10floor
BASE10 == 10

\* the widths of the unsigned types
Widths == {8, 16, 32, 64}

guessTable == [W \in Widths |-> makeGuessTable(W, BASE10)]

guessTableApproximation == [W \in Widths |-> approximateGuessTable(guessTable[W])]

makeMask(length, W) == Sub(Shl({0}, length, W), {0}, W)

\* LogFloorGuesser<Uint, 10>::operator(), the result converted to std::uint8_t
guesser(W, log2) ==
    LET a == guessTableApproximation[W]
    IN  IF a = NO_APPROXIMATION
            THEN guessTable[W][log2 + 1]
            ELSE IF And(a, makeMask(16, 64)) = {}
                THEN LET lessPreciseApproximation == Trunc(Shr(a, 16), 32)
                     IN  ToNat(Trunc(unsafeMulQ16o16Q32(lessPreciseApproximation, log2), 8))
                ELSE ToNat(Trunc(unsafeMulQ32o32Q64(a, log2), 8))

maxGuess(W) == guessTable[W][W]

\* the number of bits of nextLargerUintType: the first test holds for every type
nextLargerUint_bits(W) ==
    IF W >= 8 THEN 16
    ELSE IF W >= 16 THEN 32
    ELSE IF W >= 32 THEN 64
    ELSE 64

RECURSIVE makePowerTable_loop(_, _, _, _, _, _)
makePowerTable_loop(BASE, TW, size, i, x, result) ==
    IF i < size /\ Strict(x) /\ Strict(result)
        THEN makePowerTable_loop(BASE, TW, size, i + 1, MulSmall(x, BASE, 64),
                 Append(result, Trunc(x, TW)))
        ELSE result

\* TW: the bits of TableUint; entry i is index i + 1 of the sequence
makePowerTable(W, BASE, TW) ==
    makePowerTable_loop(BASE, TW, maxExp(BASE, W) + 2, 0, {0}, <<>>)

logFloor_powers == [W \in Widths |-> makePowerTable(W, BASE10, nextLargerUint_bits(W))]

\* logFloor<10, Uint>
logFloor(val, W, builtin) ==
    LET powers == logFloor_powers[W]
        TW == nextLargerUint_bits(W)
        guess == guesser(W, log2floor(val, W, builtin))
    IN  IF W \div 8 < TW \div 8 \/ maxGuess(W) + 2 < Len(powers)
            THEN guess + (IF Le(powers[guess + 2], val) THEN 1 ELSE 0)
            ELSE guess + (IF Le(powers[guess + 1], DivSmall(val, BASE10)) THEN 1 ELSE 0)

log10floor(val, W, builtin) == logFloor(val, W, builtin)

(***************************************************************************)
(* Zero-bit interleaving and its inverse by masked doubling shifts.        *)
(***************************************************************************)
\* the greatest number of interleaved bits the callers instantiate
MaxBITS == 64

\* the constexpr MASKS of every instantiation BITS, entry i duplicating 2^i times
MASKS ==
    [BITS \in 1..MaxBITS |->
        [i \in 0..5 |-> duplBits_naive(ileaveZeros_naive(AllOnes(32), BITS), 2 ^ i)]]

ileave_MASKS(BITS, i) == MASKS[BITS][i]

\* the start that makes 4 - log2floor(BITS >> 1) rounds
ileaveZeros_start_count(BITS) == 3 - log2floor(ToWord(BITS \div 2), 32, FALSE)

ileaveZeros_start(BITS) == 4 - log2floor(ToWord(BITS \div 2), 32, FALSE)

\* the constexpr start of every instantiation
START == [BITS \in 1..MaxBITS |-> ileaveZeros_start(BITS)]

\* the round with the stride BITS + 1 of the output taken for the shift unit
ileaveZeros_shift_round_stride(BITS, n, i) ==
    LET shift == (BITS + 1) * (2 ^ i)
    IN  And(Or(n, Shl(n, shift, 64)), ileave_MASKS(BITS, i))

\* one round: n |= n << shift; n &= MASKS[i]
ileaveZeros_shift_round(BITS, n, i) ==
    LET shift == BITS * (2 ^ i)
    IN  And(Or(n, Shl(n, shift, 64)), ileave_MASKS(BITS, i))

RECURSIVE ileaveZeros_shift_loop(_, _, _)
ileaveZeros_shift_loop(BITS, n, i) ==
    IF i # -1 /\ Strict(n)
        THEN ileaveZeros_shift_loop(BITS, ileaveZeros_shift_round(BITS, n, i), i - 1)
        ELSE n

ileaveZeros_shift(BITS, input) ==
    IF BITS = 0
        THEN Trunc(input, 32)
        ELSE ileaveZeros_shift_loop(BITS, Trunc(input, 32), START[BITS])

RECURSIVE remIleavedBits_naive_loop(_, _, _, _, _)
remIleavedBits_naive_loop(input, bits, i, b_out, result) ==
    IF i < 64 /\ Strict(input) /\ Strict(result)
        THEN IF i % bits = 0
                 THEN remIleavedBits_naive_loop(Shr(input, 1), bits, i + 1, b_out + 1,
                                                Or(result, Shl(And(input, {0}), b_out, 64)))
                 ELSE remIleavedBits_naive_loop(Shr(input, 1), bits, i + 1, b_out, result)
        ELSE result

remIleavedBits_naive(input, bits) == remIleavedBits_naive_loop(input, bits + 1, 0, 0, {})

\* the round count of the forward transform, one round short
remIleavedBits_iterations_short(BITS) == 4 - log2floor(ToWord(BITS \div 2), 32, FALSE)

remIleavedBits_iterations(BITS) == 5 - log2floor(ToWord(BITS \div 2), 32, FALSE)

\* the constexpr iterations of every instantiation
ITERATIONS == [BITS \in 1..MaxBITS |-> remIleavedBits_iterations(BITS)]

\* the round with the stride BITS + 1 of the input taken for the shift unit
remIleavedBits_shift_round_stride(BITS, input, i) ==
    LET rshift == (2 ^ i) * (BITS + 1)
    IN  And(Or(input, Shr(input, rshift)), ileave_MASKS(BITS, i + 1))

\* one round: input |= input >> rshift; input &= MASKS[i + 1]
remIleavedBits_shift_round(BITS, input, i) ==
    LET rshift == (2 ^ i) * BITS
    IN  And(Or(input, Shr(input, rshift)), ileave_MASKS(BITS, i + 1))

RECURSIVE remIleavedBits_shift_loop(_, _, _, _)
remIleavedBits_shift_loop(BITS, input, iterations, i) ==
    IF i < iterations /\ Strict(input)
        THEN remIleavedBits_shift_loop(BITS, remIleavedBits_shift_round(BITS, input, i),
                                       iterations, i + 1)
        ELSE input

remIleavedBits_shift(BITS, input) ==
    IF BITS = 0
        THEN input
        ELSE remIleavedBits_shift_loop(BITS, And(input, ileave_MASKS(BITS, 0)),
                                       ITERATIONS[BITS], 0)

\* the rounds the loop of ileaveZeros_shift<BITS> executes from i on: the index of
\* the mask and the shift of each
RECURSIVE ileaveZeros_shift_rounds_stride(_, _, _)
ileaveZeros_shift_rounds_stride(BITS, i, rounds) ==
    IF i # -1
        THEN ileaveZeros_shift_rounds_stride(BITS, i - 1,
                 Append(rounds, [mask |-> i, shift |-> (BITS + 1) * (2 ^ i)]))
        ELSE rounds

RECURSIVE ileaveZeros_shift_rounds(_, _, _)
ileaveZeros_shift_rounds(BITS, i, rounds) ==
    IF i # -1
        THEN ileaveZeros_shift_rounds(BITS, i - 1,
                 Append(rounds, [mask |-> i, shift |-> BITS * (2 ^ i)]))
        ELSE rounds

\* the rounds the loop of remIleavedBits_shift<BITS> executes from i on
RECURSIVE remIleavedBits_shift_rounds(_, _, _, _)
remIleavedBits_shift_rounds(BITS, iterations, i, rounds) ==
    IF i < iterations
        THEN remIleavedBits_shift_rounds(BITS, iterations, i + 1,
                 Append(rounds, [mask |-> i + 1, shift |-> (2 ^ i) * BITS]))
        ELSE rounds

\* the positions b_out the loop of ileaveZeros_naive shifts a bit to
RECURSIVE ileaveZeros_naive_positions(_, _, _, _, _)
ileaveZeros_naive_positions(bits, lim, i, b_out, positions) ==
    IF i < lim
        THEN ileaveZeros_naive_positions(bits, lim, i + 1, b_out + bits + 1,
                                         positions \cup {b_out})
        ELSE positions

(***************************************************************************)
(* The parallel bit deposit and extract instructions behind                *)
(* builtin::depositBits and builtin::extractBits.                          *)
(***************************************************************************)
\* the number of 1-bits of mask below position m
Rank(mask, m) == Cardinality({n \in mask : n < m})

depositBits(val, mask) == {m \in mask : Rank(mask, m) \in val}

extractBits(val, mask) == {Rank(mask, m) : m \in And(val, mask)}

\* the constexpr mask of the instantiation <BITS, SHIFT>
BUILTIN_MASK ==
    [BITS \in 0..MaxBITS |->
        [SHIFT \in 0..BITS |-> Shl(ileaveZeros_naive(AllOnes(32), BITS), SHIFT, 64)]]

\* the deposit mask is not shifted
ileaveZeros_builtin_noshift(BITS, SHIFT, input) ==
    depositBits(Trunc(input, 32), BUILTIN_MASK[BITS][0])

ileaveZeros_builtin(BITS, SHIFT, input) ==
    depositBits(Trunc(input, 32), BUILTIN_MASK[BITS][SHIFT])

\* the result is cut to 63 bits
ileaveZeros_const_63(BITS, SHIFT, input, builtin) ==
    Trunc(IF builtin
              THEN ileaveZeros_builtin(BITS, SHIFT, input)
              ELSE Shl(ileaveZeros_shift(BITS, input), SHIFT, 64), 63)

\* builtin: the deposit instruction is available and the call is not constant-evaluated
ileaveZeros_const(BITS, SHIFT, input, builtin) ==
    IF builtin
        THEN ileaveZeros_builtin(BITS, SHIFT, input)
        ELSE Shl(ileaveZeros_shift(BITS, input), SHIFT, 64)

remIleavedBits_builtin(BITS, SHIFT, input) ==
    extractBits(input, BUILTIN_MASK[BITS][SHIFT])

remIleavedBits_const(BITS, SHIFT, input, builtin) ==
    IF builtin
        THEN remIleavedBits_builtin(BITS, SHIFT, input)
        ELSE remIleavedBits_shift(BITS, Shr(input, SHIFT))

(***************************************************************************)
(* N-ary interleaving and de-interleaving.  in is the tuple of arguments,  *)
(* index I of the source is position I + 1 of the tuple.                   *)
(***************************************************************************)
ileave_naive_impl(in) ==
    LET max == Len(in) - 1
    IN  UNION {Shl(ileaveZeros_naive(in[I + 1], max), max - I, 64) : I \in 0..max}

ileave_naive(in) == ileave_naive_impl(in)

\* the lanes in the order of the arguments: argument I shifted by I
ileave_impl_swapped(in, builtin) ==
    LET max == Len(in) - 1
    IN  UNION {ileaveZeros_const(max, I, in[I + 1], builtin) : I \in 0..max}

ileave_impl(in, builtin) ==
    LET max == Len(in) - 1
    IN  UNION {ileaveZeros_const(max, max - I, in[I + 1], builtin) : I \in 0..max}

ileave(in, builtin) == ileave_impl(in, builtin)

dileave_naive_impl(n, N) ==
    LET max == N - 1
    IN  [I1 \in 1..N |-> Trunc(remIleavedBits_naive(Shr(n, max - (I1 - 1)), max), 32)]

dileave_naive(n, N) == dileave_naive_impl(n, N)

\* the lanes in the order of the outputs: output I read at shift I
dileave_impl_swapped(n, N, builtin) ==
    LET max == N - 1
    IN  [I1 \in 1..N |-> Trunc(remIleavedBits_const(max, I1 - 1, n, builtin), 32)]

dileave_impl(n, N, builtin) ==
    LET max == N - 1
    IN  [I1 \in 1..N |-> Trunc(remIleavedBits_const(max, max - (I1 - 1), n, builtin), 32)]

dileave(n, N, builtin) == dileave_impl(n, N, builtin)

(***************************************************************************)
(* The single-file variant bitmanip.hpp: binary logarithm and the 2- and   *)
(* 3-ary interleave.  Its loops have the text of the modular ones where    *)
(* the loop operators above are used again.                                *)
(***************************************************************************)
div_ceil(x, y) == 1 + CDiv(x - 1, y)

log2_floor_naive(val) == log2floor_naive_loop(val, 0)

log2_floor_fast(v, W) ==
    log2floor_fast_loop(v, W, log2_floor_naive(ToWord(W)), {})

\* val |= val >> 1, 2, 4, 8, 16, then the table at (val * 0x07C4ACDD) >> 27
log2_floor_debruijn(val) ==
    LET v1 == Or(val, Shr(val, 1))
        v2 == Or(v1, Shr(v1, 2))
        v4 == Or(v2, Shr(v2, 4))
        v8 == Or(v4, Shr(v4, 8))
        v16 == Or(v8, Shr(v8, 16))
    IN  MultiplyDeBruijnBitPosition[ToNat(Shr(Mul(v16, ToWord(magic), 32), 27)) + 1]

\* the specialization for uint32_t is the De Bruijn variant
log2_floor(v, W) ==
    IF W = 32 THEN log2_floor_debruijn(v) ELSE log2_floor_fast(v, W)

\* static_cast<Int>(1) << result has the type int for the types narrower than int
log2_ceil(val, W) ==
    LET result == log2_floor(val, W)
        inputIsntPow2 == val # Shl({0}, result, IF W < 32 THEN 32 ELSE W)
    IN  result + (IF inputIsntPow2 THEN 1 ELSE 0)

dupl_bits_naive(input, out_bits_per_in_bits) ==
    IF out_bits_per_in_bits = 0
        THEN {}
        ELSE duplBits_outer(input, out_bits_per_in_bits,
                            div_ceil(64, out_bits_per_in_bits), 0, {})

ileave_zeros_naive(input, bits) ==
    LET lim == Min(32, div_ceil(64, bits + 1))
    IN  ileaveZeros_naive_loop(Trunc(input, 32), bits, lim, 0, 0, {})

\* the constexpr MASKS of ileave_zeros<BITS>; ileave3 instantiates BITS = 2
ileave_zeros_MASKS ==
    [BITS \in 1..2 |->
        [i \in 0..4 |-> dupl_bits_naive(ileave_zeros_naive(AllOnes(32), BITS), 2 ^ i)]]

RECURSIVE ileave_zeros_loop(_, _, _)
ileave_zeros_loop(BITS, n, i) ==
    IF i # -1 /\ Strict(n)
        THEN LET shift == BITS * (2 ^ i)
             IN  ileave_zeros_loop(BITS, And(Or(n, Shl(n, shift, 64)),
                                             ileave_zeros_MASKS[BITS][i]), i - 1)
        ELSE n

ileave_zeros(BITS, input) ==
    IF BITS = 0
        THEN Trunc(input, 32)
        ELSE ileave_zeros_loop(BITS, Trunc(input, 32), 4)

\* 0x5555555555555555, 0x3333333333333333, 0x0F0F0F0F0F0F0F0F,
\* 0x00FF00FF00FF00FF, 0x0000FFFF0000FFFF
ileave2_MASKS ==
    [i \in 0..4 |-> {b \in 0..63 : b % (2 ^ (i + 1)) < 2 ^ i}]

RECURSIVE ileave2_inner(_, _)
ileave2_inner(n, i) ==
    IF i # -1 /\ Strict(n)
        THEN ileave2_inner(And(Or(n, Shl(n, 2 ^ i, 64)), ileave2_MASKS[i]), i - 1)
        ELSE n

\* the lanes shifted by i in place of 1 - i
RECURSIVE ileave2_outer_low(_, _, _)
ileave2_outer_low(nums, i, result) ==
    IF i < 2 /\ Strict(result)
        THEN ileave2_outer_low(nums, i + 1,
                               Or(result, Shl(ileave2_inner(Trunc(nums[i + 1], 32), 4), i, 64)))
        ELSE result

\* nums = {&hi, &lo}; result |= n << (1 - i)
RECURSIVE ileave2_outer(_, _, _)
ileave2_outer(nums, i, result) ==
    IF i < 2 /\ Strict(result)
        THEN ileave2_outer(nums, i + 1,
                           Or(result, Shl(ileave2_inner(Trunc(nums[i + 1], 32), 4), 1 - i, 64)))
        ELSE result

ileave2(hi, lo) == ileave2_outer(<<hi, lo>>, 0, {})

ileave3(x, y, z) ==
    Or(Or(Shl(ileave_zeros(2, x), 2, 64), Shl(ileave_zeros(2, y), 1, 64)),
       ileave_zeros(2, z))

(***************************************************************************)
(* Byte interleaving and de-interleaving.                                  *)
(***************************************************************************)
Byte0 == BitsOf(8)

\* one round too many: the byte at index COUNT is interleaved as well
RECURSIVE ileaveBytes_const_loop_over(_, _, _, _, _)
ileaveBytes_const_loop_over(COUNT, bytes, i, result, builtin) ==
    IF i < COUNT + 1 /\ Strict(bytes) /\ Strict(result)
        THEN ileaveBytes_const_loop_over(COUNT, Shr(bytes, 8), i + 1,
                 Or(result, Shl(ileaveZeros_const(COUNT - 1, 0, And(bytes, Byte0), builtin), i, 64)),
                 builtin)
        ELSE result

\* the byte is not masked out of the remaining bytes
RECURSIVE ileaveBytes_const_loop_nomask(_, _, _, _, _)
ileaveBytes_const_loop_nomask(COUNT, bytes, i, result, builtin) ==
    IF i < COUNT /\ Strict(bytes) /\ Strict(result)
        THEN ileaveBytes_const_loop_nomask(COUNT, Shr(bytes, 8), i + 1,
                 Or(result, Shl(ileaveZeros_const(COUNT - 1, 0, bytes, builtin), i, 64)),
                 builtin)
        ELSE result

RECURSIVE ileaveBytes_const_loop(_, _, _, _, _)
ileaveBytes_const_loop(COUNT, bytes, i, result, builtin) ==
    IF i < COUNT /\ Strict(bytes) /\ Strict(result)
        THEN ileaveBytes_const_loop(COUNT, Shr(bytes, 8), i + 1,
                 Or(result, Shl(ileaveZeros_const(COUNT - 1, 0, And(bytes, Byte0), builtin), i, 64)),
                 builtin)
        ELSE result

ileaveBytes_const(COUNT, bytes, builtin) ==
    IF COUNT # 0 THEN ileaveBytes_const_loop(COUNT, bytes, 0, {}, builtin) ELSE {}

RECURSIVE ileaveBytes_naive_loop(_, _, _, _)
ileaveBytes_naive_loop(bytes, count, i, result) ==
    IF i < count /\ Strict(bytes) /\ Strict(result)
        THEN ileaveBytes_naive_loop(Shr(bytes, 8), count, i + 1,
                 Or(result, Shl(ileaveZeros_naive(And(bytes, Byte0), count - 1), i, 64)))
        ELSE result

ileaveBytes_naive(bytes, count) == ileaveBytes_naive_loop(bytes, count, 0, {})

\* case 2 of the switch dispatches to the instantiation for 3 bytes
ileaveBytes_jmp_slip(bytes, count, builtin) ==
    ileaveBytes_const(IF count = 2 THEN 3 ELSE count, bytes, builtin)

\* count <= 8 is assumed; the callers of the model keep it
ileaveBytes_jmp(bytes, count, builtin) == ileaveBytes_const(count, bytes, builtin)

ileaveBytes(bytes, count, builtin) == ileaveBytes_jmp(bytes, count, builtin)

\* the bytes are pushed by one bit only
RECURSIVE dileaveBytes_const_loop_bit(_, _, _, _, _)
dileaveBytes_const_loop_bit(COUNT, ileaved, i, result, builtin) ==
    IF i # 0 /\ Strict(result)
        THEN dileaveBytes_const_loop_bit(COUNT, ileaved, i - 1,
                 Or(Shl(result, 1, 64), remIleavedBits_const(COUNT - 1, 0, Shr(ileaved, i - 1), builtin)),
                 builtin)
        ELSE result

RECURSIVE dileaveBytes_const_loop(_, _, _, _, _)
dileaveBytes_const_loop(COUNT, ileaved, i, result, builtin) ==
    IF i # 0 /\ Strict(result)
        THEN dileaveBytes_const_loop(COUNT, ileaved, i - 1,
                 Or(Shl(result, 8, 64), remIleavedBits_const(COUNT - 1, 0, Shr(ileaved, i - 1), builtin)),
                 builtin)
        ELSE result

dileaveBytes_const(COUNT, ileaved, builtin) ==
    IF COUNT # 0 THEN dileaveBytes_const_loop(COUNT, ileaved, COUNT, {}, builtin) ELSE {}

dileaveBytes_jmp(bytes, count, builtin) == dileaveBytes_const(count, bytes, builtin)

dileave_bytes(bytes, count, builtin) == dileaveBytes_jmp(bytes, count, builtin)

(***************************************************************************)
(* The inputs the callers draw.  A sample of W-bit values: runs of         *)
(* consecutive 1-bits at every position, the values 2^n - 1, their         *)
(* complements, and the periodic patterns.                                 *)
(***************************************************************************)
MaxRun == 2

MaxPeriod == 3

Runs(W) == {lo..(lo + len - 1) : lo \in BitsOf(W), len \in 1..MaxRun} \cap SUBSET BitsOf(W)

LowOnes(W) == {0..(n - 1) : n \in 0..W}

HighOnes(W) == {n..(W - 1) : n \in 0..W}

Periodic(W) == {{b \in BitsOf(W) : b % p = r} : p \in 2..MaxPeriod, r \in 0..(MaxPeriod - 1)}

Sample(W) == Runs(W) \cup LowOnes(W) \cup HighOnes(W) \cup Periodic(W)

(***************************************************************************)
(* Callers of the zero-bit interleaving functions.                         *)
(***************************************************************************)
InitZeros ==
    /\ fn = "none"
    /\ args \in [BITS : 0..MaxBITS, input : Sample(64)]
    /\ ret = {}

Call_ileaveZeros_shift ==
    /\ fn = "none"
    /\ args.input \subseteq BitsOf(32)
    /\ fn' = "ileaveZeros_shift"
    /\ ret' = ileaveZeros_shift(args.BITS, args.input)
    /\ UNCHANGED args

Call_ileaveZeros_naive ==
    /\ fn = "none"
    /\ args.input \subseteq BitsOf(32)
    /\ fn' = "ileaveZeros_naive"
    /\ ret' = ileaveZeros_naive(args.input, args.BITS)
    /\ UNCHANGED args

Call_remIleavedBits_shift ==
    /\ fn = "none"
    /\ fn' = "remIleavedBits_shift"
    /\ ret' = remIleavedBits_shift(args.BITS, args.input)
    /\ UNCHANGED args

Call_remIleavedBits_naive ==
    /\ fn = "none"
    /\ fn' = "remIleavedBits_naive"
    /\ ret' = remIleavedBits_naive(args.input, args.BITS)
    /\ UNCHANGED args

NextZeros ==
    \/ Call_ileaveZeros_shift
    \/ Call_ileaveZeros_naive
    \/ Call_remIleavedBits_shift
    \/ Call_remIleavedBits_naive

SpecZeros == InitZeros /\ [][NextZeros]_vars

(***************************************************************************)
(* Callers of the N-ary interleaving functions: up to MaxArity arguments,  *)
(* all from a small set of corner values, or one from the sample and the   *)
(* others zero.                                                            *)
(***************************************************************************)
MaxArity == 3

Corners ==
    {{}, BitsOf(32), BitsOf(4), BitsOf(8), BitsOf(21), BitsOf(22), {20}, {21}, {31}}

Tuples(N) ==
    [1..N -> Corners]
        \cup {[i \in 1..N |-> IF i = p THEN x ELSE {}] : p \in 1..N, x \in Sample(32)}

InitIleave ==
    /\ fn = "none"
    /\ args \in [in : UNION {Tuples(N) : N \in 2..MaxArity}, builtin : BOOLEAN]
    /\ ret = {}

Call_ileave ==
    /\ fn = "none"
    /\ fn' = "ileave"
    /\ ret' = ileave(args.in, args.builtin)
    /\ UNCHANGED args

Call_ileave_naive ==
    /\ fn = "none"
    /\ fn' = "ileave_naive"
    /\ ret' = ileave_naive(args.in)
    /\ UNCHANGED args

\* the code that ileave returned is taken apart again
Call_dileave ==
    /\ fn = "ileave"
    /\ fn' = "dileave"
    /\ ret' = dileave(ret, Len(args.in), args.builtin)
    /\ UNCHANGED args

Call_dileave_naive ==
    /\ fn = "ileave"
    /\ fn' = "dileave_naive"
    /\ ret' = dileave_naive(ret, Len(args.in))
    /\ UNCHANGED args

\* the single-file variant on the same arguments
Call_ileave2 ==
    /\ fn = "none"
    /\ Len(args.in) = 2
    /\ fn' = "ileave2"
    /\ ret' = ileave2(args.in[1], args.in[2])
    /\ UNCHANGED args

Call_ileave3 ==
    /\ fn = "none"
    /\ Len(args.in) = 3
    /\ fn' = "ileave3"
    /\ ret' = ileave3(args.in[1], args.in[2], args.in[3])
    /\ UNCHANGED args

NextIleave ==
    \/ Call_ileave
    \/ Call_ileave_naive
    \/ Call_dileave
    \/ Call_dileave_naive
    \/ Call_ileave2
    \/ Call_ileave3

SpecIleave == InitIleave /\ [][NextIleave]_vars

(***************************************************************************)
(* Callers of the byte interleaving functions: a count of at most MaxCount *)
(* bytes, and a payload from the sample or built from whole-byte patterns  *)
(* placed in at most MaxBytesSet bytes.                                    *)
(***************************************************************************)
\* the precondition count <= 8 of the byte functions
MaxCount == 8
MaxBytesSet == 2

BytePatterns == {Byte0, {2, 3, 6, 7}, {0}, {7}}

ByteWords ==
    {UNION {{8 * i + b : b \in pat} : i \in S} :
        pat \in BytePatterns,
        S \in {T \in SUBSET (0..7) : Cardinality(T) <= MaxBytesSet} \cup {0..n : n \in 0..7}}

InitBytes ==
    /\ fn = "none"
    /\ args \in [count : 0..MaxCount, bytes : Sample(64) \cup ByteWords, builtin : BOOLEAN]
    /\ ret = {}

Call_ileaveBytes ==
    /\ fn = "none"
    /\ fn' = "ileaveBytes"
    /\ ret' = ileaveBytes(args.bytes, args.count, args.builtin)
    /\ UNCHANGED args

Call_ileaveBytes_jmp ==
    /\ fn = "none"
    /\ fn' = "ileaveBytes_jmp"
    /\ ret' = ileaveBytes_jmp(args.bytes, args.count, args.builtin)
    /\ UNCHANGED args

Call_ileaveBytes_naive ==
    /\ fn = "none"
    /\ fn' = "ileaveBytes_naive"
    /\ ret' = ileaveBytes_naive(args.bytes, args.count)
    /\ UNCHANGED args

\* the code that ileaveBytes returned is taken apart again
Call_dileave_bytes ==
    /\ fn = "ileaveBytes"
    /\ fn' = "dileave_bytes"
    /\ ret' = dileave_bytes(ret, args.count, args.builtin)
    /\ UNCHANGED args

NextBytes ==
    \/ Call_ileaveBytes
    \/ Call_ileaveBytes_jmp
    \/ Call_ileaveBytes_naive
    \/ Call_dileave_bytes

SpecBytes == InitBytes /\ [][NextBytes]_vars

\* b is restricted to count bytes
Restricted(b, count) == b \subseteq BitsOf(8 * count)

(***************************************************************************)
(* Callers of the logarithm functions: a width, and a value from the       *)
(* sample or within MaxDelta of a power of two or of ten.                  *)
(***************************************************************************)
MaxDelta == 3

\* the powers of ten up to 10^20, exact in 80 bits
RECURSIVE Pow10_from(_, _, _)
Pow10_from(n, x, table) ==
    IF n <= 20 /\ Strict(x) /\ Strict(table)
        THEN Pow10_from(n + 1, MulSmall(x, 10, 80), Append(table, x))
        ELSE table

Pow10 == LET table == Pow10_from(0, {0}, <<>>) IN [n \in 0..20 |-> table[n + 1]]

\* floor(log10(v)), and 0 for v = 0
FloorLog10(v) ==
    IF v = {} THEN 0 ELSE CHOOSE n \in 0..19 : Le(Pow10[n], v) /\ Lt(v, Pow10[n + 1])

Near(w, W) ==
    {w} \cup {Add(w, ToWord(d), W) : d \in 1..MaxDelta}
        \cup {Sub(w, ToWord(d), W) : d \in 1..MaxDelta}

LogSample(W) ==
    Sample(W)
        \cup UNION {Near({i}, W) : i \in BitsOf(W)}
        \cup UNION {Near(Pow10[n], W) : n \in {m \in 0..19 : Pow10[m] \subseteq BitsOf(W)}}

InitLog ==
    /\ fn = "none"
    /\ args \in UNION {[W : {W}, v : LogSample(W), builtin : BOOLEAN] : W \in Widths}
    /\ ret = 0

Call_log2floor_naive ==
    /\ fn = "none"
    /\ fn' = "log2floor_naive"
    /\ ret' = log2floor_naive(args.v)
    /\ UNCHANGED args

Call_log2floor_fast ==
    /\ fn = "none"
    /\ fn' = "log2floor_fast"
    /\ ret' = log2floor_fast(args.v, args.W)
    /\ UNCHANGED args

Call_log10floor ==
    /\ fn = "none"
    /\ fn' = "log10floor"
    /\ ret' = log10floor(args.v, args.W, args.builtin)
    /\ UNCHANGED args

Call_log2floor_debruijn ==
    /\ fn = "none"
    /\ args.W = 32
    /\ fn' = "log2floor_debruijn"
    /\ ret' = log2floor_debruijn(args.v, args.builtin)
    /\ UNCHANGED args

Call_log2floor ==
    /\ fn = "none"
    /\ fn' = "log2floor"
    /\ ret' = log2floor(args.v, args.W, args.builtin)
    /\ UNCHANGED args

Call_log2ceil ==
    /\ fn = "none"
    /\ fn' = "log2ceil"
    /\ ret' = log2ceil(args.v, args.W, args.builtin)
    /\ UNCHANGED args

Call_ceilPow2m1 ==
    /\ fn = "none"
    /\ fn' = "ceilPow2m1"
    /\ ret' = ceilPow2m1(args.v, args.W, args.builtin)
    /\ UNCHANGED args

Call_ceilPow2 ==
    /\ fn = "none"
    /\ args.W \in Pow2Widths
    /\ fn' = "ceilPow2"
    /\ ret' = ceilPow2(args.v, args.W, args.builtin)
    /\ UNCHANGED args

Call_floorPow2 ==
    /\ fn = "none"
    /\ args.W \in Pow2Widths
    /\ fn' = "floorPow2"
    /\ ret' = floorPow2(args.v, args.W, args.builtin)
    /\ UNCHANGED args

\* the single-file variant on the same arguments
Call_log2_ceil ==
    /\ fn = "none"
    /\ fn' = "log2_ceil"
    /\ ret' = log2_ceil(args.v, args.W)
    /\ UNCHANGED args

NextLog ==
    \/ Call_log2_ceil
    \/ Call_log2floor_naive
    \/ Call_log2floor_fast
    \/ Call_log10floor
    \/ Call_log2floor_debruijn
    \/ Call_log2floor
    \/ Call_log2ceil
    \/ Call_ceilPow2m1
    \/ Call_ceilPow2
    \/ Call_floorPow2

SpecLog == InitLog /\ [][NextLog]_vars

(***************************************************************************)
(* Callers of the instantiations <BITS, SHIFT> of ileaveZeros_const and    *)
(* remIleavedBits_const, with and without the deposit and extract          *)
(* instructions: every BITS and SHIFT, single bits, periodic words and     *)
(* runs of ones as inputs.                                                 *)
(***************************************************************************)
ConstSample ==
    {{b} : b \in BitsOf(64)} \cup Periodic(64)
        \cup {BitsOf(64), BitsOf(32), BitsOf(33), 32..63, {}}

\* SHIFT is at most BITS where ileave_impl and dileave_impl instantiate the templates
InitConst ==
    /\ fn = "none"
    /\ args \in UNION {[BITS : {BITS}, SHIFT : 0..BITS, input : ConstSample, builtin : BOOLEAN] :
                          BITS \in 0..(MaxBITS - 1)}
    /\ ret = {}

Call_ileaveZeros_const ==
    /\ fn = "none"
    /\ args.input \subseteq BitsOf(32)
    /\ fn' = "ileaveZeros_const"
    /\ ret' = ileaveZeros_const(args.BITS, args.SHIFT, args.input, args.builtin)
    /\ UNCHANGED args

Call_remIleavedBits_const ==
    /\ fn = "none"
    /\ fn' = "remIleavedBits_const"
    /\ ret' = remIleavedBits_const(args.BITS, args.SHIFT, args.input, args.builtin)
    /\ UNCHANGED args

\* the interleaved value that ileaveZeros_const returned is taken apart again
Call_remIleavedBits_const_ileaved ==
    /\ fn = "ileaveZeros_const"
    /\ fn' = "remIleavedBits_const(ileaveZeros_const)"
    /\ ret' = remIleavedBits_const(args.BITS, args.SHIFT, ret, args.builtin)
    /\ UNCHANGED args

Call_remIleavedBits_naive_ileaved ==
    /\ fn = "ileaveZeros_naive"
    /\ fn' = "remIleavedBits_naive(ileaveZeros_naive)"
    /\ ret' = remIleavedBits_naive(ret, args.BITS)
    /\ UNCHANGED args

NextConst ==
    \/ Call_ileaveZeros_const
    \/ Call_remIleavedBits_const
    \/ Call_ileaveZeros_naive
    \/ Call_remIleavedBits_const_ileaved
    \/ Call_remIleavedBits_naive_ileaved

SpecConst == InitConst /\ [][NextConst]_vars

(***************************************************************************)
(* Integer division with a rounding mode.  An integer type is a record of  *)
(* its signedness and its width; the operands are mathematical integers in *)
(* the range of their types.  X and Y are the types of the dividend and    *)
(* the divisor.  The types modelled are signed char and unsigned char:     *)
(* their arithmetic is done in int and cannot overflow, and the result is  *)
(* converted to the common signed type.                                    *)
(***************************************************************************)
CHAR_BIT == 8

SChar == [signed |-> TRUE, W |-> CHAR_BIT]
UChar == [signed |-> FALSE, W |-> CHAR_BIT]
IntTypes == {SChar, UChar}

MinOf(T) == IF T.signed THEN 0 - 2 ^ (T.W - 1) ELSE 0
MaxOf(T) == IF T.signed THEN 2 ^ (T.W - 1) - 1 ELSE 2 ^ T.W - 1

\* static_cast<T>(v): the value modulo 2^W in the range of T
Cast(v, T) ==
    LET m == v % 2 ^ T.W
    IN  IF T.signed /\ m > MaxOf(T) THEN m - 2 ^ T.W ELSE m

divSgn(n, T) ==
    IF ~T.signed THEN 1
    ELSE (IF n > 0 THEN 1 ELSE 0) - (IF n < 0 THEN 1 ELSE 0)

Rounding == {"TRUNC", "MAGNIFY", "CEIL", "FLOOR", "ROUND"}

\* two types of one width: the type itself when both are unsigned, its signed
\* counterpart otherwise
commonSignedType(X, Y) ==
    IF ~X.signed /\ ~Y.signed THEN X ELSE [signed |-> TRUE, W |-> X.W]

divTrunc(x, y, X, Y) ==
    LET C  == commonSignedType(X, Y)
        cx == Cast(x, C)
        cy == Cast(y, C)
    IN  Cast(CDiv(cx, cy), C)

divCeil_common(x, y, X, Y) ==
    LET C  == commonSignedType(X, Y)
        quotientPositive == (x >= 0) = (y >= 0)
        cx == Cast(x, C)
        cy == Cast(y, C)
    IN  Cast(CDiv(cx, cy) + (IF CRem(cx, cy) # 0 /\ quotientPositive THEN 1 ELSE 0), C)

divFloor_nodec(x, y, X, Y) ==
    LET C  == commonSignedType(X, Y)
    IN  Cast(CDiv(Cast(x, C), Cast(y, C)), C)

divFloor(x, y, X, Y) ==
    LET C  == commonSignedType(X, Y)
        quotientNegative == (x >= 0) # (y >= 0)
        cx == Cast(x, C)
        cy == Cast(y, C)
    IN  Cast(CDiv(cx, cy) - (IF CRem(cx, cy) # 0 /\ quotientNegative THEN 1 ELSE 0), C)

divMagnify(x, y, X, Y) ==
    LET C  == commonSignedType(X, Y)
        quotientSgn == divSgn(x, X) * divSgn(y, Y)
        cx == Cast(x, C)
        cy == Cast(y, C)
    IN  Cast(CDiv(cx, cy) + (IF CRem(cx, cy) # 0 THEN 1 ELSE 0) * quotientSgn, C)

\* cy >> 1 is the arithmetic shift, the floor of cy / 2, and cy & 1 the lowest
\* bit of the two's complement of cy
divRound(TIE_BREAK, x, y, X, Y) ==
    LET C    == commonSignedType(X, Y)
        sgnX == IF x < 0 THEN 0 - 1 ELSE 1
        sgnY == IF y < 0 THEN 0 - 1 ELSE 1
        sgnQ == sgnX * sgnY
        cx   == Cast(x, C)
        cy   == Cast(y, C)
        absRemainder == CRem(cx, cy) * sgnX
        absHalfDvsor == (cy \div 2) * sgnY
        increment ==
            IF TIE_BREAK = "TRUNC" THEN absRemainder > absHalfDvsor
            ELSE IF TIE_BREAK = "MAGNIFY" THEN absRemainder >= absHalfDvsor + (cy % 2)
            ELSE FALSE
    IN  Cast(CDiv(cx, cy) + (IF increment THEN 1 ELSE 0) * sgnQ, C)

div(ROUND, TIE_BREAK, x, y, X, Y) ==
    IF ROUND = "TRUNC" THEN divTrunc(x, y, X, Y)
    ELSE IF ROUND = "CEIL" THEN divCeil_common(x, y, X, Y)
    ELSE IF ROUND = "FLOOR" THEN divFloor(x, y, X, Y)
    ELSE IF ROUND = "MAGNIFY" THEN divMagnify(x, y, X, Y)
    ELSE divRound(TIE_BREAK, x, y, X, Y)

\* the quotient x / y rounded as the mode says, computed from the floor
Rounded(ROUND, TIE_BREAK, x, y) ==
    LET FloorOf(a, b) == IF b > 0 THEN a \div b ELSE (0 - a) \div (0 - b)
        f == FloorOf(x, y)
        c == 0 - FloorOf(0 - x, y)
        positive == (x >= 0) = (y >= 0)
        towardsZero == IF positive THEN f ELSE c
        awayFromZero == IF positive THEN c ELSE f
        Abs(v) == IF v < 0 THEN 0 - v ELSE v
        df == Abs(x - f * y)
        dc == Abs(c * y - x)
    IN  IF ROUND = "TRUNC" THEN towardsZero
        ELSE IF ROUND = "MAGNIFY" THEN awayFromZero
        ELSE IF ROUND = "CEIL" THEN c
        ELSE IF ROUND = "FLOOR" THEN f
        ELSE IF df < dc THEN f
        ELSE IF dc < df THEN c
        ELSE IF TIE_BREAK = "TRUNC" THEN towardsZero
        ELSE awayFromZero

\* x of type X and y of type Y keep their values in the common signed type
Representable(x, y, X, Y) ==
    LET C == commonSignedType(X, Y)
    IN  /\ x \in MinOf(C)..MaxOf(C)
        /\ y \in MinOf(C)..MaxOf(C)

\* the overflowing quotient MIN / -1
isMinEdgeCase(x, y, X) == X.signed /\ x = MinOf(X) /\ y = 0 - 1

(***************************************************************************)
(* Callers of the division functions: operands within MaxDivDelta of the   *)
(* ends of the range of their type, of zero and of the largest value of    *)
(* the signed type.                                                        *)
(***************************************************************************)
MaxDivDelta == 10

DivSample(T) ==
    {v \in MinOf(T)..MaxOf(T) :
        \E e \in {MinOf(T), 0, MaxOf(SChar), MaxOf(T)} :
            v - e \in (0 - MaxDivDelta)..MaxDivDelta}

InitDiv ==
    /\ fn = "init"
    /\ args \in UNION {[X : {X}, Y : {Y}, x : DivSample(X), y : DivSample(Y) \ {0},
                        ROUND : Rounding, TIE_BREAK : {"TRUNC", "MAGNIFY"}] :
                       <<X, Y>> \in IntTypes \X IntTypes}
    /\ ret = 0

Call_div ==
    /\ fn = "init"
    /\ fn' = "div"
    /\ ret' = div(args.ROUND, args.TIE_BREAK, args.x, args.y, args.X, args.Y)
    /\ UNCHANGED args

Call_divRound ==
    /\ fn = "init"
    /\ fn' = "divRound"
    /\ ret' = divRound(args.TIE_BREAK, args.x, args.y, args.X, args.Y)
    /\ UNCHANGED args

NextDiv ==
    \/ Call_div
    \/ Call_divRound

SpecDiv == InitDiv /\ [][NextDiv]_vars

(***************************************************************************)
(* Callers of the guess table functions: every width and every base up to  *)
(* MaxBase.                                                                *)
(***************************************************************************)
MaxBase == 16

InitTable ==
    /\ fn = "none"
    /\ args \in [W : Widths, BASE : 2..MaxBase]
    /\ ret = 0

Call_makeGuessTable ==
    /\ fn = "none"
    /\ fn' = "makeGuessTable"
    /\ ret' = makeGuessTable(args.W, args.BASE)
    /\ UNCHANGED args

Call_approximateGuessTable ==
    /\ fn = "none"
    /\ fn' = "approximateGuessTable"
    /\ ret' = approximateGuessTable(makeGuessTable(args.W, args.BASE))
    /\ UNCHANGED args

NextTable ==
    \/ Call_makeGuessTable
    \/ Call_approximateGuessTable

SpecTable == InitTable /\ [][NextTable]_vars

\* C1: for every k in [1,63] and every 32-bit input, the masked doubling-shift
\* ileaveZeros_shift<k> returns the value of ileaveZeros_naive(input, k).
C1_ShiftMatchesNaive ==
    (fn = "ileaveZeros_shift" /\ args.BITS \in 1..63)
        => ret = ileaveZeros_naive(args.input, args.BITS)

\* ileaveZeros_shift<2>(0xFFFFFFFF) = 0x9249249249249249
C1_Witness ==
    /\ fn = "ileaveZeros_shift"
    /\ args.BITS = 2
    /\ args.input = BitsOf(32)
    /\ ret = {b \in BitsOf(64) : b % 3 = 0}

\* C2: for every k in [1,64] and every 64-bit input, remIleavedBits_shift<k> returns
\* the value of remIleavedBits_naive(input, k): output bit m is input bit m*(k+1)
\* for every m with m*(k+1) < 64, and every higher output bit is 0.
C2_RemShiftMatchesNaive ==
    (fn = "remIleavedBits_shift" /\ args.BITS \in 1..64)
        => /\ ret = remIleavedBits_naive(args.input, args.BITS)
           /\ ret = {m \in BitsOf(64) : m * (args.BITS + 1) \in args.input}

\* remIleavedBits_shift<2>(0xFFFFFFFFFFFFFFFF) = 0x3FFFFF
C2_Witness ==
    /\ fn = "remIleavedBits_shift"
    /\ args.BITS = 2
    /\ args.input = BitsOf(64)
    /\ ret = BitsOf(22)

\* C3: for N in {2,3} and full-range 32-bit arguments, ileave returns the value of
\* detail::ileave_naive, the OR of ileaveZeros_naive(a_i, N-1) << (N-1-i) in 64 bits:
\* bit j of argument i is result bit j*N + (N-1-i), so that argument 0 is the highest
\* bit of each group of N; ileave(0xFF, 0) = 0xAAAA, ileave(0, 0xFFFFFFFF) =
\* 0x5555555555555555, ileave(0xF, 0, 0) = 0b100100100100.
C3_IleaveLanes ==
    (fn = "ileave" /\ Len(args.in) \in {2, 3})
        => LET N == Len(args.in)
           IN  /\ ret = ileave_naive(args.in)
               /\ ret = {p \in BitsOf(64) :
                            \E i \in 0..(N - 1) :
                                \E j \in args.in[i + 1] : p = j * N + (N - 1 - i)}
               /\ args.in = <<BitsOf(8), {}>> => ret = {2 * j + 1 : j \in 0..7}
               /\ args.in = <<{}, BitsOf(32)>> => ret = {2 * j : j \in 0..31}
               /\ args.in = <<BitsOf(4), {}, {}>> => ret = {2, 5, 8, 11}

\* ileave(0xF, 0, 0) = 0b100100100100
C3_Witness ==
    /\ fn = "ileave"
    /\ args.in = <<BitsOf(4), {}, {}>>
    /\ ret = {2, 5, 8, 11}

\* C4: for x, y, z below 2^21, dileave and detail::dileave_naive take the code
\* ileave(x, y, z) apart into (x, y, z), in the order of the arguments.
C4_DileaveReverses ==
    (/\ fn \in {"dileave", "dileave_naive"}
     /\ Len(args.in) = 3
     /\ \A i \in 1..3 : args.in[i] \subseteq BitsOf(21))
        => ret = args.in

\* (0x1FFFFF, 0x100000, 0xF) comes back from its code
C4_Witness ==
    /\ fn = "dileave"
    /\ args.in = <<BitsOf(21), {20}, BitsOf(4)>>
    /\ ret = args.in

\* C5: for every count in [0,8] and every b restricted to count bytes,
\* dileave_bytes(ileaveBytes(b, count), count) = b.
C5_BytesRoundTrip ==
    (fn = "dileave_bytes" /\ Restricted(args.bytes, args.count)) => ret = args.bytes

\* three whole bytes come back from their code
C5_Witness ==
    /\ fn = "dileave_bytes"
    /\ args.count = 3
    /\ args.bytes = BitsOf(24)
    /\ ret = BitsOf(24)

\* C6: for every count in [0,8] and every 64-bit b, also one with non-zero bytes at
\* index >= count, ileaveBytes_jmp(b, count) = ileaveBytes_naive(b, count).
C6_JmpMatchesNaive ==
    (fn = "ileaveBytes_jmp") => ret = ileaveBytes_naive(args.bytes, args.count)

\* count 2 with all eight bytes set: only bytes 0 and 1 are interleaved
C6_Witness ==
    /\ fn = "ileaveBytes_jmp"
    /\ args.count = 2
    /\ args.bytes = BitsOf(64)
    /\ ret = BitsOf(16)

\* C7: for every count in [0,8] and every b restricted to count bytes, ileaveBytes(b, count)
\* has as many set bits as b.
C7_BitCountPreserved ==
    (fn = "ileaveBytes" /\ Restricted(args.bytes, args.count))
        => Cardinality(ret) = Cardinality(args.bytes)

\* 0xCCCC in two bytes: eight bits before and after
C7_Witness ==
    /\ fn = "ileaveBytes"
    /\ args.count = 2
    /\ args.bytes = {2, 3, 6, 7, 10, 11, 14, 15}
    /\ Cardinality(ret) = 8

\* C8: for count in [1,8], ileaveBytes(b, count) has bit j of byte i of b at bit
\* j*count + i, for i < count and j < 8, and no other bit; ileaveBytes(b, 0) = 0;
\* ileaveBytes(0xFF, 2) = 0x5555, ileaveBytes(0xFF00, 2) = 0xAAAA,
\* ileaveBytes(0xCC, 1) = 0xCC, ileaveBytes(0xFF000000FF, 8) = 0x1111111111111111.
C8_BytePlacement ==
    (fn = "ileaveBytes")
        => /\ args.count \in 1..8 =>
                ret = {p \in BitsOf(64) :
                          \E i \in 0..(args.count - 1) :
                              \E j \in 0..7 : 8 * i + j \in args.bytes /\ p = j * args.count + i}
           /\ args.count = 0 => ret = {}
           /\ (args.count = 2 /\ args.bytes = BitsOf(8)) => ret = {2 * j : j \in 0..7}
           /\ (args.count = 2 /\ args.bytes = {8 + b : b \in BitsOf(8)}) => ret = {2 * j + 1 : j \in 0..7}
           /\ (args.count = 1 /\ args.bytes = {2, 3, 6, 7}) => ret = {2, 3, 6, 7}
           /\ (args.count = 8 /\ args.bytes = BitsOf(8) \cup {32 + b : b \in BitsOf(8)})
                => ret = {4 * j : j \in 0..15}

\* ileaveBytes(0xFF000000FF, 8) = 0x1111111111111111
C8_Witness ==
    /\ fn = "ileaveBytes"
    /\ args.count = 8
    /\ args.bytes = BitsOf(8) \cup {32 + b : b \in BitsOf(8)}
    /\ ret = {4 * j : j \in 0..15}

\* C9: for each width W in {8,16,32,64} and every W-bit v, logFloor<10>(v) =
\* log10floor(v) is floor(log10(v)) for v >= 1 and 0 for v = 0, exactly so at
\* 10^n - 1, at 10^n and at the maximum of each width.
C9_Log10FloorExact ==
    (fn = "log10floor") => ret = FloorLog10(args.v)

\* log10floor<std::uint32_t>(999999) returns 6
C9_Witness ==
    /\ fn = "log10floor"
    /\ args.W = 32
    /\ args.v = ToWord(999999)
    /\ ret = 6

\* C10: for every width W in {8,16,32,64} and every W-bit v, log2floor_fast(v) equals
\* log2floor_naive(v), and both are the index of the highest set bit of v, or 0 for v = 0.
C10_Log2FloorFastIsNaive ==
    (fn \in {"log2floor_fast", "log2floor_naive"})
        => /\ ret = log2floor_fast(args.v, args.W)
           /\ ret = log2floor_naive(args.v)
           /\ args.v = {} => ret = 0
           /\ args.v # {} => (ret \in args.v /\ \A b \in args.v : b <= ret)

\* log2floor_fast of 2^32 in 64 bits is 32
C10_Witness ==
    /\ fn = "log2floor_fast"
    /\ args.W = 64
    /\ args.v = {32}
    /\ ret = 32

\* C11: for every 32-bit v, v = 0 included, log2floor_debruijn(v) (ceilPow2m1, multiply
\* by 0x07C4ACDD modulo 2^32, shift right by 27, look up the 32-entry table) returns
\* the value of log2floor_fast(v), and the index into the table is in [0,31].
C11_DebruijnIsFast ==
    (fn = "log2floor_debruijn")
        => /\ log2floor_debruijn_index(args.v, args.builtin) \in 0..31
           /\ ret = log2floor_fast(args.v, 32)

\* log2floor_debruijn(100) = 6, through the shift variant of ceilPow2m1
C11_Witness ==
    /\ fn = "log2floor_debruijn"
    /\ args.v = {2, 5, 6}
    /\ ~args.builtin
    /\ ret = 6

\* C12: for every unsigned v of every width, log2ceil(v) is log2floor(v) + 1 when v is
\* neither zero nor a power of two and log2floor(v) otherwise; log2ceil(0) = 0,
\* log2ceil(1) = 0, log2ceil(100) = 7, and log2ceil(v) = ceil(log2(v)) for v >= 1.
C12_Log2Ceil ==
    (fn = "log2ceil")
        => /\ ret = log2floor(args.v, args.W, args.builtin)
                      + (IF Cardinality(args.v) >= 2 THEN 1 ELSE 0)
           /\ args.v = {} => ret = 0
           /\ args.v = {0} => ret = 0
           /\ args.v = {2, 5, 6} => ret = 7
           /\ args.v # {} =>
                /\ Le(args.v, {ret})
                /\ \A n \in 0..(ret - 1) : ~Le(args.v, {n})

\* log2ceil(100) = 7 in 8 bits
C12_Witness ==
    /\ fn = "log2ceil"
    /\ args.W = 8
    /\ args.v = {2, 5, 6}
    /\ ret = 7

\* C13: for every v of width W in {8,16,32,64}, ceilPow2m1(v) is the smallest value
\* 2^n - 1 that is >= v, that is v with every bit below its highest set bit set, and
\* ceilPow2m1(0) = 0; 100 -> 127, 1 -> 1, 3 -> 3, 64 -> 127.  The builtin variant
\* v | ((1 << log2floor(v)) - 1) returns the value of the shift variant.
C13_CeilPow2m1 ==
    (fn = "ceilPow2m1")
        => /\ ret \in LowOnes(args.W)
           /\ Le(args.v, ret)
           /\ \A x \in LowOnes(args.W) : Le(args.v, x) => Le(ret, x)
           /\ ret = {b \in BitsOf(args.W) : \E c \in args.v : b <= c}
           /\ args.v = {} => ret = {}
           /\ args.v = {2, 5, 6} => ret = BitsOf(7)
           /\ args.v = {0} => ret = {0}
           /\ args.v = {0, 1} => ret = {0, 1}
           /\ args.v = {6} => ret = BitsOf(7)
           /\ ceilPow2m1_builtin(args.v, args.W) = ceilPow2m1_shift(args.v, args.W)

\* ceilPow2m1(64) = 127 in 8 bits, by the shift variant
C13_Witness ==
    /\ fn = "ceilPow2m1"
    /\ args.W = 8
    /\ args.v = {6}
    /\ ~args.builtin
    /\ ret = BitsOf(7)

\* C14: for every v of width W with 1 <= v <= 2^(W-1), ceilPow2(v) is the smallest
\* power of two >= v (100 -> 128, 1 -> 1, 3 -> 4); ceilPow2(0) = 0; and floorPow2(v) =
\* ceilPow2m1(v >> 1) + 1 is the largest power of two <= v for every v >= 1.
C14_CeilFloorPow2 ==
    /\ (fn = "ceilPow2" /\ args.v # {} /\ Le(args.v, {args.W - 1}))
          => /\ \E n \in BitsOf(args.W) :
                    /\ ret = {n}
                    /\ Le(args.v, {n})
                    /\ \A m \in 0..(n - 1) : ~Le(args.v, {m})
             /\ args.v = {2, 5, 6} => ret = {7}
             /\ args.v = {0} => ret = {0}
             /\ args.v = {0, 1} => ret = {2}
    /\ (fn = "ceilPow2" /\ args.v = {}) => ret = {}
    /\ (fn = "floorPow2" /\ args.v # {})
          => /\ ret = Add(ceilPow2m1(Shr(args.v, 1), args.W, args.builtin), {0}, args.W)
             /\ \E n \in BitsOf(args.W) :
                    /\ ret = {n}
                    /\ Le({n}, args.v)
                    /\ \A m \in (n + 1)..(args.W - 1) : ~Le({m}, args.v)

\* ceilPow2(100) = 128 in 32 bits
C14_Witness ==
    /\ fn = "ceilPow2"
    /\ args.W = 32
    /\ args.v = {2, 5, 6}
    /\ ret = {7}

\* C15: for full-range 32-bit x, y, z only the low 21 bits of each argument survive in
\* the 3-ary interleave: ileave(x, y, z) = ileave(x mod 2^21, y mod 2^21, z mod 2^21).
C15_Low21BitsSurvive ==
    (fn = "ileave" /\ Len(args.in) = 3)
        => ret = ileave([i \in 1..3 |-> Trunc(args.in[i], 21)], args.builtin)

\* C15, as the code has it: the low 21 bits of x and of y and the low 22 bits of z
\* survive, bit 21 of z being bit 63 of the result:
\* ileave(x, y, z) = ileave(x mod 2^21, y mod 2^21, z mod 2^22).
C15_Low21And22BitsSurvive ==
    (fn = "ileave" /\ Len(args.in) = 3)
        => /\ ret = ileave(<<Trunc(args.in[1], 21), Trunc(args.in[2], 21), Trunc(args.in[3], 22)>>,
                           args.builtin)
           /\ 63 \in ret <=> 21 \in args.in[3]

\* ileave(0, 0, 2^21) = 2^63
C15_Witness ==
    /\ fn = "ileave"
    /\ args.in = <<{}, {}, {21}>>
    /\ ret = {63}

\* C16: for every k in [1,63], every SHIFT in [0,k] and every input, ileaveZeros_const<k,
\* SHIFT> and remIleavedBits_const<k, SHIFT> return the same value with the PDEP/PEXT
\* capability (deposit or extract against ileaveZeros_naive(all-ones, k) << SHIFT) as
\* without it (ileaveZeros_shift<k>(input) << SHIFT, remIleavedBits_shift<k>(input >> SHIFT)).
C16_BuiltinMatchesShift ==
    /\ (fn = "ileaveZeros_const" /\ args.BITS \in 1..63)
          => /\ ret = ileaveZeros_builtin(args.BITS, args.SHIFT, args.input)
             /\ ret = Shl(ileaveZeros_shift(args.BITS, args.input), args.SHIFT, 64)
    /\ (fn = "remIleavedBits_const" /\ args.BITS \in 1..63)
          => /\ ret = remIleavedBits_builtin(args.BITS, args.SHIFT, args.input)
             /\ ret = remIleavedBits_shift(args.BITS, Shr(args.input, args.SHIFT))

\* the deposit path of ileaveZeros_const<2, 2>(1 << 20) returns 1 << 62
C16_Witness ==
    /\ fn = "ileaveZeros_const"
    /\ args.BITS = 2
    /\ args.SHIFT = 2
    /\ args.input = {20}
    /\ args.builtin
    /\ ret = {62}

\* C17: with BITS = 0 the transforms are the identity: ileaveZeros_const<0>(x) = x for
\* every 32-bit x and remIleavedBits_const<0>(x) = x for every 64-bit x, x >= 2^32
\* included, on the portable and on the PDEP/PEXT path alike, as
\* remIleavedBits_naive(x, 0) = x.
C17_ZeroBitsIdentity ==
    /\ (fn = "ileaveZeros_const" /\ args.BITS = 0) => ret = args.input
    /\ (fn = "remIleavedBits_const" /\ args.BITS = 0)
          => /\ ret = args.input
             /\ remIleavedBits_naive(args.input, 0) = args.input

\* the extract path of remIleavedBits_const<0>(1 << 32) returns 0
C17_Witness ==
    /\ fn = "remIleavedBits_const"
    /\ args.BITS = 0
    /\ args.builtin
    /\ args.input = {32}
    /\ ret = {}

C19_DivRoundClosest ==
    (fn = "divRound" /\ ~isMinEdgeCase(args.x, args.y, args.X)
            /\ Representable(args.x, args.y, args.X, args.Y))
        => /\ ret = Rounded("ROUND", args.TIE_BREAK, args.x, args.y)
           /\ (args.Y.signed /\ args.y # MinOf(args.Y)
                    /\ ~isMinEdgeCase(args.x, 0 - args.y, args.X))
                => divRound(args.TIE_BREAK, args.x, 0 - args.y, args.X, args.Y) = 0 - ret

\* 5 / -3 is -1.67 and is rounded to -1
C19_Witness ==
    /\ fn = "divRound"
    /\ args.TIE_BREAK = "MAGNIFY"
    /\ args.X = SChar /\ args.Y = SChar
    /\ args.x = 5 /\ args.y = 0 - 3
    /\ ret = 0 - 1

C21_GuessPlusCorrectionExact ==
    (fn = "log10floor" /\ args.v # {})
        => LET log2 == log2floor(args.v, args.W, args.builtin)
               g    == guesser(args.W, log2)
           IN  /\ g = guessTable[args.W][log2 + 1]
               /\ g <= FloorLog10(args.v)
               /\ FloorLog10(args.v) <= g + 1
               /\ ret = FloorLog10(args.v)

\* C21, the guess alone: it is the entry of the guess table and is floor(log10(v))
\* or one below it.
C21_GuessWithinOne ==
    (fn = "log10floor" /\ args.v # {})
        => LET log2 == log2floor(args.v, args.W, args.builtin)
               g    == guesser(args.W, log2)
           IN  /\ g = guessTable[args.W][log2 + 1]
               /\ g <= FloorLog10(args.v)
               /\ FloorLog10(args.v) <= g + 1

\* log10floor<std::uint64_t>(2^63): the guess is 18 and is right, the result is 19
C21_Witness ==
    /\ fn = "log10floor"
    /\ args.W = 64
    /\ args.v = {63}
    /\ guesser(64, 63) = 18
    /\ FloorLog10(args.v) = 18
    /\ ret = 19

C23_FactorReproducesTable ==
    (fn = "approximateGuessTable")
        => LET table == makeGuessTable(args.W, args.BASE)
           IN  /\ ret # NO_APPROXIMATION
                    => \A i \in 0..(args.W - 1) :
                            Shr(MulSmall(ret, i, 64), 32) = ToWord(table[i + 1])
               /\ (args.W = 64 /\ args.BASE = 10) => ret # NO_APPROXIMATION

\* the factor of the base 10 table of width 64 is 0x4D000000, and 63 * F >> 32 is 18
C23_Witness ==
    /\ fn = "approximateGuessTable"
    /\ args.W = 64
    /\ args.BASE = 10
    /\ ret # NO_APPROXIMATION
    /\ Shr(MulSmall(ret, 63, 64), 32) = ToWord(18)

C25_RoundCounts ==
    (fn \in {"ileaveZeros_shift", "remIleavedBits_shift"} /\ args.BITS \in 1..63)
        => LET k == args.BITS
               h == IF k \div 2 = 0 THEN 1 ELSE k \div 2
               l == CHOOSE e \in 0..5 : 2 ^ e <= h /\ h < 2 ^ (e + 1)
           IN  /\ Len(ileaveZeros_shift_rounds(k, START[k], <<>>)) = 4 - l
               /\ Len(remIleavedBits_shift_rounds(k, ITERATIONS[k], 0, <<>>)) = 5 - l

\* C25, as the loops run: the forward loop starts at the index 4 - log2floor(k >> 1)
\* and ends after the index 0, so both loops perform 5 - log2floor(k >> 1) rounds, and
\* these rounds give the result.
C25_RoundCountsEqual ==
    (fn \in {"ileaveZeros_shift", "remIleavedBits_shift"} /\ args.BITS \in 1..63)
        => LET k == args.BITS
               h == IF k \div 2 = 0 THEN 1 ELSE k \div 2
               l == CHOOSE e \in 0..5 : 2 ^ e <= h /\ h < 2 ^ (e + 1)
               forward == ileaveZeros_shift_rounds(k, START[k], <<>>)
               inverse == remIleavedBits_shift_rounds(k, ITERATIONS[k], 0, <<>>)
               RECURSIVE run(_, _, _)
               run(rounds, j, n) ==
                   IF j <= Len(rounds) /\ Strict(n)
                       THEN run(rounds, j + 1,
                                IF fn = "ileaveZeros_shift"
                                    THEN ileaveZeros_shift_round(k, n, rounds[j].mask)
                                    ELSE remIleavedBits_shift_round(k, n, rounds[j].mask - 1))
                       ELSE n
           IN  /\ Len(forward) = 5 - l
               /\ forward[1].mask = 4 - l
               /\ forward[Len(forward)].mask = 0
               /\ Len(inverse) = 5 - l
               /\ fn = "ileaveZeros_shift" => ret = run(forward, 1, Trunc(args.input, 32))
               /\ fn = "remIleavedBits_shift"
                    => ret = run(inverse, 1, And(args.input, ileave_MASKS(k, 0)))

\* one zero bit per bit: five rounds forward, with the masks 4, 3, 2, 1, 0
C25_Witness ==
    /\ fn = "ileaveZeros_shift"
    /\ args.BITS = 1
    /\ args.input = BitsOf(32)
    /\ Len(ileaveZeros_shift_rounds(1, START[1], <<>>)) = 5
    /\ ret = {2 * j : j \in 0..31}

\* C28: in every round of ileaveZeros_shift<k> and of remIleavedBits_shift<k>, for every
\* k in [1,64], the shift k * 2^i is below 64 and the index of the mask, i or i + 1, is
\* within the 5 or 6 entries of MASKS; every bit position ileaveZeros_naive writes is
\* below 64 for every k >= 0.
C28_ShiftsAndIndicesInRange ==
    LET k == args.BITS
    IN  /\ (fn = "ileaveZeros_shift" /\ k \in 1..64)
            => LET rounds == ileaveZeros_shift_rounds(k, START[k], <<>>)
               IN  \A j \in 1..Len(rounds) :
                        /\ rounds[j].shift \in 0..63
                        /\ rounds[j].mask \in 0..4
        /\ (fn = "remIleavedBits_shift" /\ k \in 1..64)
            => LET rounds == remIleavedBits_shift_rounds(k, ITERATIONS[k], 0, <<>>)
               IN  \A j \in 1..Len(rounds) :
                        /\ rounds[j].shift \in 0..63
                        /\ rounds[j].mask \in 0..5
        /\ (fn = "ileaveZeros_naive")
            => LET lim == Min(32, divCeil(64, k + 1))
                   positions == ileaveZeros_naive_positions(k, lim, 0, 0, {})
               IN  /\ positions \subseteq 0..63
                   /\ ret \subseteq positions

\* k = 63: one round, with the largest shift there is
C28_Witness ==
    /\ fn = "ileaveZeros_shift"
    /\ args.BITS = 63
    /\ args.input = {0, 1}
    /\ ileaveZeros_shift_rounds(63, START[63], <<>>) = <<[mask |-> 0, shift |-> 63]>>
    /\ ret = {0}

\* C26: the single-file ileave2(hi, lo) and ileave3(x, y, z) map argument 0 to a
\* bit of each group other than the modular ileave does: whenever only argument 0
\* is non-zero, the code of the single-file variant differs from the modular one
C26_LaneOrderDiffers ==
    (/\ fn \in {"ileave2", "ileave3"}
     /\ args.in[1] # {}
     /\ \A I \in 2..Len(args.in) : args.in[I] = {})
        => ret # ileave(args.in, args.builtin)

\* C26: the single-file ileave2(hi, lo) and ileave3(x, y, z) return the code of the
\* modular ileave for the same arguments, argument 0 on the highest bit of each
\* group in both variants
C26_LaneOrderSame ==
    fn \in {"ileave2", "ileave3"}
        => /\ ret = ileave(args.in, args.builtin)
           /\ \A b \in 0..20 :
                  b \in args.in[1] <=> (Len(args.in) * b + Len(args.in) - 1) \in ret

\* ileave3(1, 0, 0) is 4 in the single-file variant as in the modular one
C26_Witness ==
    /\ fn = "ileave3"
    /\ args.in = <<{0}, {}, {}>>
    /\ ret = {2}
    /\ ileave(args.in, FALSE) = {2}

\* C27: for every unsigned v the single-file log2_ceil(v) is log2_floor(v) plus 1
\* when v is neither a power of two nor zero, so that log2_ceil(0) is 0, and it
\* equals the modular log2ceil(v)
C27_Log2CeilSingleFile ==
    fn = "log2_ceil"
        => /\ ret = log2_floor(args.v, args.W)
                       + (IF ~isPow2or0(args.v, args.W) THEN 1 ELSE 0)
           /\ ret = log2ceil(args.v, args.W, args.builtin)

\* C27 for the non-zero inputs only: there the two variants agree
C27_Log2CeilSingleFileNonZero ==
    (fn = "log2_ceil" /\ args.v # {})
        => /\ ret = log2_floor(args.v, args.W)
                       + (IF ~isPow2or0(args.v, args.W) THEN 1 ELSE 0)
           /\ ret = log2ceil(args.v, args.W, args.builtin)

\* log2_ceil(0u) is 1 in the single-file variant, 0 in the modular one
C27_Witness ==
    /\ fn = "log2_ceil"
    /\ args.W = 32
    /\ args.v = {}
    /\ ret = 1
    /\ log2ceil(args.v, args.W, args.builtin) = 0

\* C29: for every k in 0..63 and every 32-bit x, taking the zero bits out of the
\* interleaved x gives back the low L bits of x, L = min(32, ceil(64 / (k + 1))):
\* remIleavedBits_const<k>(ileaveZeros_const<k>(x)) = x mod 2^L on the portable and
\* on the PDEP/PEXT path, and remIleavedBits_naive(ileaveZeros_naive(x, k), k) = x mod 2^L
C29_ZerosRoundTrip ==
    LET L == Min(32, divCeil(64, args.BITS + 1))
    IN  /\ (fn = "remIleavedBits_const(ileaveZeros_const)" /\ args.SHIFT = 0)
              => ret = Trunc(args.input, L)
        /\ fn = "remIleavedBits_naive(ileaveZeros_naive)"
              => ret = Trunc(args.input, L)

\* k = 2 holds 22 bits: bit 21 of x comes back from bit 63, bits 22 to 31 are lost
C29_Witness ==
    /\ fn = "remIleavedBits_const(ileaveZeros_const)"
    /\ args.BITS = 2
    /\ args.SHIFT = 0
    /\ ~args.builtin
    /\ args.input = BitsOf(32)
    /\ ret = BitsOf(22)

\* C30: for base 10 and every width W in {8,16,32,64}, the entry of logFloor_powers
\* that logFloor reads, at index guess or guess + 1 and at most maxExp + 1, is
\* 10^index whenever 10^index is below 2^(2W) (below 2^64 for W = 64), the element
\* type of the table being at least W bits wide and wider than W for W in {8,16,32}
C30_PowerTableExact ==
    fn = "log10floor"
        => LET W == args.W
               TW == nextLargerUint_bits(W)
               powers == logFloor_powers[W]
               guess == guesser(W, log2floor(args.v, W, args.builtin))
               index == IF W \div 8 < TW \div 8 \/ maxGuess(W) + 2 < Len(powers)
                            THEN guess + 1
                            ELSE guess
           IN  /\ TW >= W
               /\ W \in {8, 16, 32} => TW > W
               /\ index <= maxExp(BASE10, W) + 1
               /\ Pow10[index] \subseteq BitsOf(IF W = 64 THEN 64 ELSE 2 * W)
                     => powers[index + 1] = Pow10[index]

\* C30 for std::uint8_t, the one type whose table holds every power that is read
C30_PowerTableExact8 ==
    (fn = "log10floor" /\ args.W = 8)
        => LET powers == logFloor_powers[8]
               guess == guesser(8, log2floor(args.v, 8, args.builtin))
           IN  /\ nextLargerUint_bits(8) > 8
               /\ guess + 1 <= maxExp(BASE10, 8) + 1
               /\ powers[guess + 2] = Pow10[guess + 1]

\* log10floor<std::uint32_t>(999999) reads powers[6], which holds 10^6 mod 2^16 = 16960
\* in a table of 16-bit elements
C30_Witness ==
    /\ fn = "log10floor"
    /\ args.W = 32
    /\ args.v = ToWord(999999)
    /\ guesser(32, log2floor(args.v, 32, args.builtin)) = 5
    /\ nextLargerUint_bits(32) = 16
    /\ logFloor_powers[32][7] = ToWord(16960)
    /\ Pow10[6] = ToWord(1000000)

====
